---- MODULE Spec2Model ----
(***************************************************************************)
(* Model of server/hostapp/src-tauri/icons/update-icon.py: the command     *)
(* line entry point, generate_icons, the external resize tool (sips) it    *)
(* runs once per entry of the size table, and the working directory the    *)
(* tool writes to.  The script may be run again with the same arguments;   *)
(* the files of the working directory persist between runs.                *)
(***************************************************************************)
EXTENDS Integers, Sequences, FiniteSets, TLC

\* Number of times the script is run on the same working directory.
MaxRuns == 2
\* Largest number of positional arguments on the command line.
MaxArgs == 2

\* File names of the working directory: the four output names of the size
\* table and one name that is none of them.
Paths == {"src.png", "icon.png", "128x128@2x.png", "128x128.png", "32x32.png"}

\* Exit statuses of the resize tool: success, failure, killed by a signal
\* (subprocess reports the negated signal number).
RetCodes == {0, 1, -9}

\* Pixel dimensions (width, height) of the images the user supplies.
OrigDims == <<1024, 1024>>

\* An absent file.
NoFile == [img |-> "none", hist |-> <<>>]

\* The image a user placed at path p: identified by where it was placed;
\* hist lists the dimensions the pixels went through.
OrigImage(p) == [img |-> p, hist |-> <<OrigDims>>]

\* What an interrupted write leaves behind: a file that is no image.
Truncated == [img |-> "truncated", hist |-> << <<0, 0>> >>]

Dims(c) == c.hist[Len(c.hist)]

\* sips -z: resample an image to width x height.  Resampling to the
\* dimensions the image already has leaves its pixels as they are.
Resample(c, width, height) ==
    IF Dims(c) = <<width, height>> THEN c
    ELSE [img |-> c.img, hist |-> Append(c.hist, <<width, height>>)]

\* update-icon.py:19-24
sizes ==
    << <<512, 512, "icon.png">>,
       <<256, 256, "128x128@2x.png">>,
       <<128, 128, "128x128.png">>,
       <<32, 32, "32x32.png">> >>

\* update-icon.py:29
Cmd(width, height, source_file, output) ==
    <<"sips", "-z", height, width, source_file, "--out", output>>

\* The effect of a successful run of the tool on the working directory.
Sips(files, cmd) ==
    [files EXCEPT ![cmd[7]] = Resample(files[cmd[5]], cmd[4], cmd[3])]

\* What a run of the tool that fails, is killed or hangs has done to its
\* output file by then: nothing, part of it, or all of it.  The script never
\* looks at the file and never removes it.
ToolEffects == {"none", "partial", "complete"}

SipsUnfinished(files, cmd, effect) ==
    CASE effect = "none" -> files
      [] effect = "partial" -> [files EXCEPT ![cmd[7]] = Truncated]
      [] effect = "complete" -> Sips(files, cmd)

\* update-icon.py:15
SourceMissing(files, source_file) == files[source_file] = NoFile

\* update-icon.py:32
Failed(returncode) == returncode # 0

\* Mutation of LoopBody: the loop goes on to the next entry after a failure.
LoopBodyContinue(returncode, i) == [returns |-> FALSE, idx |-> i + 1]

\* update-icon.py:32-36: what the loop body does with the tool's exit status.
LoopBody(returncode, i) ==
    IF Failed(returncode) THEN [returns |-> TRUE, idx |-> i]
    ELSE [returns |-> FALSE, idx |-> i + 1]

\* update-icon.py:41
UsageError(args) == Len(args) # 2

\* update-icon.py:48-53: the exit status for generate_icons' result.
ExitStatus(ok) == IF ok THEN 0 ELSE 1

\* Byte length of a file name.
NameLen(p) ==
    CASE p = "src.png" -> 7
      [] p = "icon.png" -> 8
      [] p = "128x128@2x.png" -> 14
      [] p = "128x128.png" -> 11
      [] p = "32x32.png" -> 9
      [] OTHER -> 0

\* Number of characters of str(n).
Digits(n) == IF n < 10 THEN 1 ELSE IF n < 100 THEN 2 ELSE IF n < 1000 THEN 3 ELSE 4

\* A printed line.  detail is the kind of text of the tool's diagnostic the
\* line carries ("ascii" or "nonascii"); extra is the byte length of the text
\* the line takes from outside: the diagnostic, or the directory prefix of the
\* source path.
Msg(text, file, width, height, detail, extra) ==
    [text |-> text, file |-> file, w |-> width, h |-> height,
     detail |-> detail, extra |-> extra]

\* Byte length of the printed text (update-icon.py:16-52), without the
\* newline print adds.
MsgLen(m) ==
    CASE m.text = "usage" -> 48
      [] m.text = "usage-size" -> 45
      [] m.text = "source-not-found" -> 31 + NameLen(m.file) + m.extra
      [] m.text = "generating" -> 25 + NameLen(m.file) + m.extra
      [] m.text = "error-generating" -> 19 + NameLen(m.file) + m.extra
      [] m.text = "generated" -> 18 + NameLen(m.file) + Digits(m.w) + Digits(m.h)
      [] m.text = "complete" -> 26
      [] m.text = "next-build" -> 51
      [] m.text = "failed" -> 24
      [] OTHER -> 0

\* update-icon.py:36 prints the character U+2713; update-icon.py:33 prints
\* result.stderr.  Every other printed text is ASCII (as the paths here are).
NonAscii(m) == m.text = "generated" \/ m.detail = "nonascii"

\* sys.stdout behind a buffer is a text layer that collects up to ChunkSize
\* bytes over a binary buffer of BufferSize bytes (the block size of the
\* device: 4096 for /dev/full and for a pipe).
ChunkSize == 8192
BufferSize == 4096

\* The binary buffer of a stdout that cannot be written: data that fits is
\* kept, anything else needs a write to the device, which fails.
BufWrite(b, len) ==
    IF len <= BufferSize - b THEN [buf |-> b + len, ok |-> TRUE]
    ELSE [buf |-> b, ok |-> FALSE]

\* The text layer hands its pending bytes to the binary buffer; they are
\* dropped from the text layer whether or not the buffer takes them.
WriteFlush(p) ==
    IF p.text = 0 THEN [text |-> 0, buf |-> p.buf, ok |-> TRUE]
    ELSE LET w == BufWrite(p.buf, p.text)
         IN  [text |-> 0, buf |-> w.buf, ok |-> w.ok]

\* sys.stdout.write of len bytes on a buffered stdout that cannot be written.
TextWrite(p, len) ==
    LET pre == IF p.text > 0 /\ p.text + len > ChunkSize
               THEN WriteFlush(p)
               ELSE [text |-> p.text, buf |-> p.buf, ok |-> TRUE]
    IN  IF ~pre.ok THEN pre
        ELSE LET q == [text |-> pre.text + len, buf |-> pre.buf, ok |-> TRUE]
             IN  IF q.text >= ChunkSize THEN WriteFlush(q) ELSE q

\* sys.stdout.flush() on a buffered stdout that cannot be written.
FlushStd(p) ==
    LET f == WriteFlush(p)
    IN  IF f.ok /\ f.buf > 0 THEN [text |-> 0, buf |-> f.buf, ok |-> FALSE] ELSE f

NoPending == [text |-> 0, buf |-> 0, ok |-> TRUE]

\* print(m): the exception it raises, or "none", and what stays pending.
\* The text is encoded first, then written, then the newline is written; an
\* unbuffered stdout writes at once.
PrintError(p, m, kind, encoding) ==
    IF encoding = "ascii" /\ NonAscii(m) THEN [pend |-> p, exc |-> "UnicodeEncodeError"]
    ELSE IF kind = "ok" THEN [pend |-> p, exc |-> "none"]
    ELSE IF kind = "full-unbuffered" THEN [pend |-> p, exc |-> "OSError"]
    ELSE LET Newline(a) ==
                 CHOOSE r \in {[pend |-> b, exc |-> IF b.ok THEN "none" ELSE "OSError"] :
                                  b \in {TextWrite(a, 1)}} : TRUE
         IN  CHOOSE r \in {IF a.ok THEN Newline(a) ELSE [pend |-> a, exc |-> "OSError"] :
                              a \in {TextWrite(p, MsgLen(m))}} : TRUE

\* A sequence of print calls: the lines accepted by stdout, what stays
\* pending, and the exception that ended the sequence, if any.
RECURSIVE PrintAll(_, _, _, _, _)
PrintAll(o, p, msgs, kind, encoding) ==
    IF msgs = <<>> THEN [out |-> o, pend |-> p, exc |-> "none"]
    ELSE LET Rest(r) ==
                 IF r.exc # "none" THEN [out |-> o, pend |-> r.pend, exc |-> r.exc]
                 ELSE PrintAll(Append(o, Head(msgs)), r.pend, Tail(msgs), kind, encoding)
         IN  CHOOSE x \in {Rest(r) : r \in {PrintError(p, Head(msgs), kind, encoding)}} : TRUE

\* The status the interpreter exits with.  stdout is flushed twice on the
\* way out: once with the error ignored, once at finalization, where a
\* failure makes 120 replace the status the script asked for.
AtExit(status, p, kind) ==
    IF kind # "full-buffered" THEN status
    ELSE IF FlushStd(FlushStd(p)).ok THEN status ELSE 120

\* What stdout is connected to: a writable device, or a full device or
\* closed pipe behind a buffered or an unbuffered stream.
StdoutKinds == {"ok", "full-buffered", "full-unbuffered"}
StdoutEncodings == {"utf-8", "ascii"}

\* What the tool printed: ASCII text, text with non-ASCII characters, or
\* bytes that are not text in the locale's encoding; and how many bytes.
ToolOutputs == {"ascii", "nonascii", "undecodable"}
StderrSizes == {20, 6000, 8130, 8150, 20000}

\* Byte length of the redundant directory prefix ("./" repeated) of the
\* source path on the command line.
PathPads == {0, 4080}

\* Launching the tool: it starts, or subprocess.run raises.
Launches == {"ok", "FileNotFoundError", "PermissionError"}

VARIABLES
    argv,           \* sys.argv: the script name and the positional arguments
    pathPad,        \* bytes of directory prefix before the name in argv[1]
    fs,             \* the working directory: path -> image or NoFile
    toolLaunch,     \* what launching sips does on this machine
    stdoutKind,     \* what sys.stdout is connected to
    stdoutEncoding, \* the encoding of sys.stdout
    run,            \* which run of the script this is
    prev,           \* what the previous run left behind
    pc,             \* position of the process
    source,         \* source_file
    idx,            \* position of the for loop in sizes
    result,         \* the CompletedProcess of the last tool run
    genCalled,      \* generate_icons has been called in this run
    genResult,      \* "none", "true", "false", or "raised"
    exc,            \* the exception that ended the process, or "none"
    exitcode,       \* <<>> while running, <<status>> once exited
    invs,           \* the commands handed to subprocess.run in this run
    rcs,            \* the exit statuses of the tool runs of this run
    reads,          \* the image each tool run that wrote its output read
    out,            \* the lines print accepted in this run
    pend,           \* bytes pending in the text layer and buffer of stdout
    fsLog,          \* filesystem accesses of this run
    fs0             \* the working directory when this run started

env == <<argv, pathPad, toolLaunch, stdoutKind, stdoutEncoding>>
hist == <<invs, rcs, reads, fsLog, fs0>>
vars == <<argv, pathPad, fs, toolLaunch, stdoutKind, stdoutEncoding, run, prev, pc,
          source, idx, result, genCalled, genResult, exc, exitcode, invs, rcs,
          reads, out, pend, fsLog, fs0>>

ArgLists == UNION {[1..n -> Paths] : n \in 0..MaxArgs}

NoResult == [returncode |-> 0, stderr |-> "", size |-> 0]
NoPrev == [done |-> FALSE, invs |-> <<>>, fs |-> [p \in Paths |-> NoFile],
           genResult |-> "none", fsLog |-> <<>>]

Init ==
    /\ argv \in {<<"update-icon.py">> \o a : a \in ArgLists}
    /\ stdoutKind \in StdoutKinds
    \* the length of the path matters only to a stdout that buffers what it
    \* cannot write
    /\ pathPad \in PathPads
    /\ stdoutKind # "full-buffered" => \A other \in PathPads : pathPad <= other
    /\ fs \in {[p \in Paths |-> IF p \in present THEN OrigImage(p) ELSE NoFile] :
                  present \in SUBSET Paths}
    /\ toolLaunch \in Launches
    /\ stdoutEncoding \in StdoutEncodings
    /\ run = 1
    /\ prev = NoPrev
    /\ pc = "start"
    /\ source = ""
    /\ idx = 0
    /\ result = NoResult
    /\ genCalled = FALSE
    /\ genResult = "none"
    /\ exc = "none"
    /\ exitcode = <<>>
    /\ invs = <<>>
    /\ rcs = <<>>
    /\ reads = <<>>
    /\ out = <<>>
    /\ pend = NoPending
    /\ fsLog = <<>>
    /\ fs0 = fs

\* An exception nothing catches: the interpreter prints the traceback on
\* stderr and exits with status 1 (120 if stdout cannot be flushed).
Uncaught(e, pending) ==
    /\ exc' = e
    /\ exitcode' = <<AtExit(1, pending, stdoutKind)>>
    /\ pc' = "exited"

\* update-icon.py:40-48: the argument check and the call of generate_icons.
Main ==
    /\ pc = "start"
    /\ IF UsageError(argv)
       THEN \E p \in {PrintAll(out, pend,
                              <<Msg("usage", "", 0, 0, "ascii", 0),
                                Msg("usage-size", "", 0, 0, "ascii", 0)>>,
                              stdoutKind, stdoutEncoding)} :
                /\ out' = p.out
                /\ pend' = p.pend
                /\ IF p.exc # "none"
                   THEN Uncaught(p.exc, p.pend)
                   ELSE /\ exitcode' = <<AtExit(1, p.pend, stdoutKind)>>
                        /\ pc' = "exited"
                        /\ UNCHANGED exc
                /\ UNCHANGED <<source, genCalled>>
       ELSE /\ source' = argv[2]
            /\ genCalled' = TRUE
            /\ pc' = "gen_entry"
            /\ UNCHANGED <<out, pend, exc, exitcode>>
    /\ UNCHANGED <<env, fs, run, prev, idx, result, genResult, hist>>

\* update-icon.py:15-26: the existence check at the head of generate_icons
\* and the line printed after it.
GenEntry ==
    /\ pc = "gen_entry"
    /\ fsLog' = Append(fsLog, <<"exists", source>>)
    /\ \E missing \in {SourceMissing(fs, source)} :
       \E p \in {PrintAll(out, pend,
                         <<Msg(IF missing THEN "source-not-found" ELSE "generating",
                               source, 0, 0, "ascii", pathPad)>>,
                         stdoutKind, stdoutEncoding)} :
           /\ out' = p.out
           /\ pend' = p.pend
           /\ IF p.exc # "none"
              THEN /\ genResult' = "raised"
                   /\ Uncaught(p.exc, p.pend)
                   /\ UNCHANGED idx
              ELSE IF missing
              THEN /\ genResult' = "false"
                   /\ pc' = "gen_ret"
                   /\ UNCHANGED <<idx, exc, exitcode>>
              ELSE /\ idx' = 1
                   /\ pc' = "loop"
                   /\ UNCHANGED <<genResult, exc, exitcode>>
    /\ UNCHANGED <<env, fs, run, prev, source, result, genCalled,
                   invs, rcs, reads, fs0>>

\* update-icon.py:28-30: the next entry of sizes is handed to subprocess.run,
\* which raises FileNotFoundError when there is no sips to launch and
\* PermissionError when the sips found cannot be executed.
\* update-icon.py:38: past the last entry generate_icons returns True.
LoopStep ==
    /\ pc = "loop"
    /\ IF idx > Len(sizes)
       THEN /\ genResult' = "true"
            /\ pc' = "gen_ret"
            /\ UNCHANGED <<invs, exc, exitcode>>
       ELSE /\ invs' = Append(invs, Cmd(sizes[idx][1], sizes[idx][2], source, sizes[idx][3]))
            /\ IF toolLaunch = "ok"
               THEN /\ pc' = "wait"
                    /\ UNCHANGED <<genResult, exc, exitcode>>
               ELSE /\ genResult' = "raised"
                    /\ Uncaught(toolLaunch, pend)
    /\ UNCHANGED <<env, fs, run, prev, source, idx, result, genCalled,
                   rcs, reads, out, pend, fsLog, fs0>>

\* The tool ends with an exit status, having printed size bytes of some
\* text.  It succeeds only on a source that exists, and then has written the
\* output file; a run that fails has written none, part or all of it.
\* subprocess.run(..., text=True) decodes the output and raises
\* UnicodeDecodeError when it is not text.  Where the script's behaviour
\* cannot depend on it, one value stands for all: the diagnostic of a
\* successful run is never printed, its length matters only to a stdout that
\* buffers what it cannot write, and non-ASCII text prints like ASCII text
\* unless stdout is ASCII-encoded.
ToolExit(rc, text, size, effect) ==
    /\ pc = "wait"
    /\ (rc = 0 \/ stdoutKind # "full-buffered") =>
           \A other \in StderrSizes : size <= other
    /\ (rc = 0 \/ stdoutEncoding # "ascii") => text # "nonascii"
    /\ rc = 0 => effect = "complete"
    /\ LET cmd == invs[Len(invs)] IN
       /\ effect = "complete" => fs[cmd[5]] # NoFile
       /\ IF effect # "none"
          THEN /\ fs' = SipsUnfinished(fs, cmd, effect)
               /\ reads' = Append(reads, fs[cmd[5]])
               /\ fsLog' = Append(fsLog, <<"write", cmd[7]>>)
          ELSE UNCHANGED <<fs, reads, fsLog>>
    /\ rcs' = Append(rcs, rc)
    /\ IF text = "undecodable"
       THEN /\ genResult' = "raised"
            /\ Uncaught("UnicodeDecodeError", pend)
            /\ UNCHANGED result
       ELSE /\ result' = [returncode |-> rc, stderr |-> text, size |-> size]
            /\ pc' = "check"
            /\ UNCHANGED <<genResult, exc, exitcode>>
    /\ UNCHANGED <<env, run, prev, source, idx, genCalled, invs, out, pend, fs0>>

\* The tool never ends: subprocess.run has no timeout and blocks for ever.
ToolHang(effect) ==
    /\ pc = "wait"
    /\ pc' = "hung"
    /\ LET cmd == invs[Len(invs)] IN
       /\ effect = "complete" => fs[cmd[5]] # NoFile
       /\ IF effect # "none"
          THEN /\ fs' = SipsUnfinished(fs, cmd, effect)
               /\ reads' = Append(reads, fs[cmd[5]])
               /\ fsLog' = Append(fsLog, <<"write", cmd[7]>>)
          ELSE UNCHANGED <<fs, reads, fsLog>>
    /\ UNCHANGED <<env, run, prev, source, idx, result, genCalled, genResult,
                   exc, exitcode, invs, rcs, fs0, out, pend>>

\* update-icon.py:32-36
CheckResult ==
    /\ pc = "check"
    /\ \E body \in {LoopBody(result.returncode, idx)} :
       \E p \in {PrintAll(out, pend,
                         <<IF body.returns
                           THEN Msg("error-generating", sizes[idx][3], 0, 0,
                                    result.stderr, result.size)
                           ELSE Msg("generated", sizes[idx][3], sizes[idx][1],
                                    sizes[idx][2], "ascii", 0)>>,
                         stdoutKind, stdoutEncoding)} :
           /\ out' = p.out
           /\ pend' = p.pend
           /\ IF p.exc # "none"
              THEN /\ genResult' = "raised"
                   /\ Uncaught(p.exc, p.pend)
                   /\ UNCHANGED idx
              ELSE IF body.returns
              THEN /\ genResult' = "false"
                   /\ pc' = "gen_ret"
                   /\ UNCHANGED <<idx, exc, exitcode>>
              ELSE /\ idx' = body.idx
                   /\ pc' = "loop"
                   /\ UNCHANGED <<genResult, exc, exitcode>>
    /\ UNCHANGED <<env, fs, run, prev, source, result, genCalled, hist>>

\* update-icon.py:48-53
MainFinish ==
    /\ pc = "gen_ret"
    /\ \E p \in {PrintAll(out, pend,
                         IF genResult = "true"
                         THEN <<Msg("complete", "", 0, 0, "ascii", 0),
                                Msg("next-build", "", 0, 0, "ascii", 0)>>
                         ELSE <<Msg("failed", "", 0, 0, "ascii", 0)>>,
                         stdoutKind, stdoutEncoding)} :
           /\ out' = p.out
           /\ pend' = p.pend
           /\ IF p.exc # "none"
              THEN Uncaught(p.exc, p.pend)
              ELSE /\ exitcode' = <<AtExit(ExitStatus(genResult = "true"), p.pend, stdoutKind)>>
                   /\ pc' = "exited"
                   /\ UNCHANGED exc
    /\ UNCHANGED <<env, fs, run, prev, source, idx, result, genCalled, genResult, hist>>

\* The user runs the script again, with the same arguments, in the same
\* working directory and with the same stdout.
Rerun ==
    /\ pc = "exited"
    /\ run < MaxRuns
    /\ run' = run + 1
    /\ prev' = [done |-> TRUE, invs |-> invs, fs |-> fs,
                genResult |-> genResult, fsLog |-> fsLog]
    /\ pc' = "start"
    /\ source' = ""
    /\ idx' = 0
    /\ result' = NoResult
    /\ genCalled' = FALSE
    /\ genResult' = "none"
    /\ exc' = "none"
    /\ exitcode' = <<>>
    /\ invs' = <<>>
    /\ rcs' = <<>>
    /\ reads' = <<>>
    /\ out' = <<>>
    /\ pend' = NoPending
    /\ fsLog' = <<>>
    /\ fs0' = fs
    /\ UNCHANGED <<env, fs>>

Next ==
    \/ Main
    \/ GenEntry
    \/ LoopStep
    \/ \E rc \in RetCodes, text \in ToolOutputs, size \in StderrSizes,
          effect \in ToolEffects :
          ToolExit(rc, text, size, effect)
    \/ \E effect \in ToolEffects : ToolHang(effect)
    \/ CheckResult
    \/ MainFinish
    \/ Rerun

Spec == Init /\ [][Next]_vars

\* The process is scheduled as long as it can take a step.
FairSpec == Spec /\ WF_vars(Next)

(***************************************************************************)
(* What the claims speak of, written out independently of the size table.  *)
(***************************************************************************)
ExpectedNames == <<"icon.png", "128x128@2x.png", "128x128.png", "32x32.png">>
ExpectedDims == << <<512, 512>>, <<256, 256>>, <<128, 128>>, <<32, 32>> >>

ExpectedCmds(src) ==
    [j \in 1..4 |-> <<"sips", "-z", ExpectedDims[j][2], ExpectedDims[j][1],
                      src, "--out", ExpectedNames[j]>>]

\* The files written, in the order they were written.
Written(log) ==
    LET w == SelectSeq(log, LAMBDA e : e[1] = "write")
    IN  [j \in 1..Len(w) |-> w[j][2]]

WrittenSet(log) == {log[j][2] : j \in {i \in 1..Len(log) : log[i][1] = "write"}}

\* The number of tool runs that succeeded before the first failure.
LeadingOk(s) ==
    CHOOSE n \in 0..Len(s) :
        /\ \A j \in 1..n : s[j] = 0
        /\ n = Len(s) \/ s[n + 1] # 0

AllOk(s) == \A j \in 1..Len(s) : s[j] = 0

Returned == genResult \in {"true", "false"}

\* generate_icons was called and control has left it.
GenEnded == genCalled /\ pc \in {"gen_ret", "exited"}

\* The lines that reached whatever stdout is connected to.
Delivered == IF stdoutKind = "ok" THEN out ELSE <<>>

\* C1: if the tool exits with a non-zero status on the k-th entry, the
\* earlier ones having succeeded, exactly the first k entries have been
\* invoked, no further entry ever is, and generate_icons returns False.
C1Claim ==
    \A k \in 1..Len(rcs) :
        (rcs[k] # 0 /\ \A j \in 1..(k - 1) : rcs[j] = 0) =>
            /\ k <= 4
            /\ invs = SubSeq(ExpectedCmds(source), 1, k)
            /\ pc # "check" => genResult = "false"

\* C2: for an existing source and a tool that always succeeds,
\* generate_icons returns True after exactly the four invocations of the
\* size table, in order, each having written its named file at its size.
C2Claim ==
    (GenEnded /\ fs0[source] # NoFile /\ toolLaunch = "ok" /\ AllOk(rcs)) =>
        /\ genResult = "true"
        /\ invs = ExpectedCmds(source)
        /\ Written(fsLog) = ExpectedNames
        /\ \A j \in 1..4 :
              /\ fs[ExpectedNames[j]] # NoFile
              /\ Dims(fs[ExpectedNames[j]]) = ExpectedDims[j]

\* C3: for a source that does not exist when generate_icons is called, it
\* returns False, the tool is never invoked and no file is written.
C3Claim ==
    (genCalled /\ fs0[source] = NoFile) =>
        /\ invs = <<>>
        /\ Written(fsLog) = <<>>
        /\ fs = fs0
        /\ pc # "gen_entry" => genResult = "false"

\* C4: the process exits with status 0 exactly when one positional argument
\* was given and generate_icons returned True (all four icons written); every
\* other run that ends exits with status 1.
C4Claim ==
    pc = "exited" =>
        /\ exitcode \in {<<0>>, <<1>>}
        /\ exitcode = <<0>> <=> (Len(argv) = 2 /\ genResult = "true")
        /\ exitcode = <<0>> => Written(fsLog) = ExpectedNames

\* C5: with an argument count other than one the program prints the usage
\* text and exits with status 1 without calling generate_icons: no existence
\* check, no tool invocation, no file written.
C5Claim ==
    (Len(argv) # 2 /\ pc # "start") =>
        /\ pc = "exited"
        /\ exitcode = <<1>>
        /\ Delivered = <<Msg("usage", "", 0, 0, "ascii", 0),
                       Msg("usage-size", "", 0, 0, "ascii", 0)>>
        /\ ~genCalled
        /\ fsLog = <<>>
        /\ invs = <<>>
        /\ fs = fs0

\* C6: every call of generate_icons that ends, ends by returning True or
\* False, whatever the existence check and the tool invocations do (the tool
\* being impossible to launch included); no exception escapes.
C6Claim ==
    /\ GenEnded => Returned
    /\ exc = "none"

\* C7: a second run on the same existing source with a succeeding tool makes
\* the same invocations and writes the same files as the first, and leaves
\* the working directory as the first run left it.
C7Claim ==
    (prev.done /\ prev.genResult = "true" /\ genResult = "true" /\ pc = "exited") =>
        /\ invs = prev.invs
        /\ Written(fsLog) = Written(prev.fsLog)
        /\ fs = prev.fs

\* C8 as stated: no entry of the size table is invoked twice in a run, and
\* the files written by a run are exactly those of the entries that succeeded
\* before the first failure; they stay in place and nothing else is touched.
C8Claim ==
    /\ \A a, b \in 1..Len(invs) : a # b => invs[a][7] # invs[b][7]
    /\ WrittenSet(fsLog) = {ExpectedNames[j] : j \in 1..LeadingOk(rcs)}
    /\ \A j \in 1..LeadingOk(rcs) :
          /\ fs[ExpectedNames[j]] # NoFile
          /\ Dims(fs[ExpectedNames[j]]) = ExpectedDims[j]
    /\ \A p \in Paths \ WrittenSet(fsLog) : fs[p] = fs0[p]

\* C8, amended: no entry of the size table is invoked twice in a run and
\* none is invoked after the first that does not succeed; the files of the
\* entries that succeeded before it are written and stay in place as
\* written; besides them only the output of the one entry that did not
\* succeed may have been written, whole or in part, and it is not removed;
\* nothing else is touched.
C8Theorem ==
    /\ \A a, b \in 1..Len(invs) : a # b => invs[a][7] # invs[b][7]
    /\ Len(invs) <= LeadingOk(rcs) + 1
    /\ {ExpectedNames[j] : j \in 1..LeadingOk(rcs)} \subseteq WrittenSet(fsLog)
    /\ WrittenSet(fsLog) \subseteq {invs[j][7] : j \in 1..Len(invs)}
    /\ \A j \in 1..LeadingOk(rcs) :
          /\ fs[ExpectedNames[j]] # NoFile
          /\ Dims(fs[ExpectedNames[j]]) = ExpectedDims[j]
    /\ \A j \in 1..Len(fsLog) :
          fsLog[j][1] = "write" => fs[fsLog[j][2]] # NoFile
    /\ \A p \in Paths \ WrittenSet(fsLog) : fs[p] = fs0[p]

\* The third entry failed after writing part of its output: the first two
\* outputs and the partial third are all in the working directory.
C8Witness ==
    /\ rcs = <<0, 0, 1>>
    /\ genResult = "false"
    /\ pc = "exited"
    /\ fs0["icon.png"] = NoFile
    /\ fs0["128x128.png"] = NoFile
    /\ fs["icon.png"] # NoFile
    /\ fs["128x128@2x.png"] # NoFile
    /\ fs["128x128.png"] = Truncated

\* C9: generate_icons never modifies the source file, whatever its name, so
\* every invocation resizes the image the caller supplied.
C9Claim ==
    (genCalled /\ fs0[source] # NoFile) =>
        /\ fs[source] = fs0[source]
        /\ \A j \in 1..Len(reads) : reads[j] = fs0[source]

\* C10: a call of generate_icons returns unless a tool invocation never
\* ends; it makes at most four invocations, and none after one that hangs.
C10Claim ==
    /\ genCalled ~> (Returned \/ pc = "hung")
    /\ [](Len(invs) <= 4)
    /\ [][pc = "hung" => invs' = invs]_vars

====
